---- MODULE Spec2Model ----
(***************************************************************************)
(* Arduino ADB host: the three sketches of the repository as one state     *)
(* machine.  variant selects the sketch:                                   *)
(*   "ino"     src/adb_host/adb_host.ino  (command 'a', old decoder)       *)
(*   "pde"     src/adb_host/adb_host.pde, first sketch (passthrough,       *)
(*             decoder commented out)                                      *)
(*   "part000" src/unnamed/part_000 (passthrough, new decoder)             *)
(* A pin write is <<level, microseconds held>>.  Arrays are functions on   *)
(* 0..N-1.  uint8_t arithmetic is taken modulo 256.                        *)
(***************************************************************************)
EXTENDS Integers, Sequences, FiniteSets, TLC

VARIABLES variant, pc, wire, sent, busMode, busLevel, rawData, registerBit,
          registerByte, locals, report, reply, prevReply, prevReport,
          fault, written, cycles, trace

vars == <<variant, pc, wire, sent, busMode, busLevel, rawData, registerBit,
          registerByte, locals, report, reply, prevReply, prevReport,
          fault, written, cycles, trace>>

(***************************************************************************)
(* Bounds of the model.                                                    *)
(***************************************************************************)
MaxCycles == 2
MaxLead == 1

(***************************************************************************)
(* Program constants.                                                      *)
(***************************************************************************)
BITBUFFERSIZE == 100
numReadRegBits == 66
RegisterBytes == 8
RegisterBits == 64
ByteRange == 256
AttentionMicros == 800
SyncMicros == 65
ShortMicros == 35
LongMicros == 65
StopMicros == 70
ResetMicros == 3000
SettleMicros == 5000
ReadyMarker == 33
CommandA == 97
Register3Command == 63

Variants == {"ino", "pde", "part000"}

Passthrough == {"pde", "part000"}

ToByte(x) == x % ByteRange

bitRead(value, bit) == (value \div (2 ^ bit)) % 2

(***************************************************************************)
(* Transmit side.                                                          *)
(***************************************************************************)
LowLevelSame(v) == "LOW"

\* Level written for "line low" / "line high": part_000 writes the inverse
\* level to ADB_OUT.
LowLevel(v) == IF v = "part000" THEN "HIGH" ELSE "LOW"

HighLevel(v) == IF v = "part000" THEN "LOW" ELSE "HIGH"

ADBattention(v) == << <<LowLevel(v), AttentionMicros>> >>

ADBsync(v) == << <<HighLevel(v), SyncMicros>> >>

ADBstartstopBit(v) == << <<LowLevel(v), StopMicros>>, <<HighLevel(v), 0>> >>

ADBtruePulse(v) == << <<LowLevel(v), ShortMicros>>, <<HighLevel(v), LongMicros>> >>

ADBfalsePulse(v) == << <<LowLevel(v), LongMicros>>, <<HighLevel(v), ShortMicros>> >>

ADBglobalResetHeldLow(v) == << <<LowLevel(v), ResetMicros>> >>

ADBglobalReset(v) ==
    IF v = "part000"
    THEN << <<"HIGH", ResetMicros>> >>
    ELSE << <<"LOW", ResetMicros>>, <<"HIGH", SettleMicros>> >>

\* binaryBoolArray[inverse] = bitRead(byteToSend, i), inverse = 7 - i
binaryBoolArrayLsbFirst(byteToSend) == [k \in 0..7 |-> bitRead(byteToSend, k)]

binaryBoolArray(byteToSend) == [k \in 0..7 |-> bitRead(byteToSend, 7 - k)]

RECURSIVE SendBits(_, _, _)
SendBits(v, arr, i) ==
    IF i >= 8 THEN <<>>
    ELSE (IF arr[i] = 1 THEN ADBtruePulse(v) ELSE ADBfalsePulse(v))
         \o SendBits(v, arr, i + 1)

sendCommandByte(v, byteToSend) ==
    ADBattention(v) \o ADBsync(v)
    \o SendBits(v, binaryBoolArray(byteToSend), 0)
    \o ADBstartstopBit(v)

(***************************************************************************)
(* The peripheral's reply: lead timeouts, then the low-pulse durations it  *)
(* puts on the line.  A frame is a start marker, one cell per payload bit  *)
(* (low 35 us for 1, low 65 us for 0) and a stop marker.                   *)
(***************************************************************************)
Bits8(value) == [k \in 1..8 |-> bitRead(value, 8 - k)]

RECURSIVE BitsOf(_)
BitsOf(bytes) ==
    IF bytes = <<>> THEN <<>> ELSE Bits8(Head(bytes)) \o BitsOf(Tail(bytes))

Payloads ==
    { BitsOf(<<129>>),
      BitsOf(<<1>>),
      BitsOf(<<255, 255>>),
      BitsOf(<<165, 60>>) \o <<1, 0, 1, 1>>,
      BitsOf(<<129, 60, 255>>),
      BitsOf(<<170, 170, 170, 170, 170, 170, 170, 170>>),
      BitsOf(<<255, 255, 255, 255, 255, 255, 255, 255, 255>>) }

\* Low time of a start or stop marker: a "1" cell, as the decoder of
\* part_000 expects, or the 70 us ADBstartstopBit drives.
OtherMarkerPairs == { <<ShortMicros, StopMicros>>, <<StopMicros, StopMicros>> }

OtherMarkerPayloads ==
    { BitsOf(<<129>>), BitsOf(<<255, 255>>), BitsOf(<<255, 240>>) \o <<0, 0, 0, 0>> }

NoReply == [kind |-> "none", lead |-> 0, start |-> 0, bits |-> <<>>, stop |-> 0]

NoCycle == [kind |-> "null", lead |-> 0, start |-> 0, bits |-> <<>>, stop |-> 0]

Frame(lead, start, bits, stop) ==
    [kind |-> "frame", lead |-> lead, start |-> start, bits |-> bits, stop |-> stop]

\* One isolated low pulse and nothing else.
SinglePulse(lead, low) ==
    [kind |-> "pulse", lead |-> lead, start |-> low, bits |-> <<>>, stop |-> 0]

Replies ==
    {NoReply}
    \cup { SinglePulse(l, ShortMicros) : l \in 0..MaxLead }
    \cup { Frame(l, ShortMicros, b, ShortMicros) : l \in 0..MaxLead, b \in Payloads }
    \cup { Frame(0, m[1], b, m[2]) : m \in OtherMarkerPairs, b \in OtherMarkerPayloads }

CellLow(b) == IF b = 1 THEN ShortMicros ELSE LongMicros

Pulses(r) ==
    IF r.kind = "frame"
    THEN <<r.start>> \o [k \in 1..Len(r.bits) |-> CellLow(r.bits[k])] \o <<r.stop>>
    ELSE IF r.kind = "pulse" THEN <<r.start>>
    ELSE <<>>

(***************************************************************************)
(* Pulse sampler.                                                          *)
(***************************************************************************)
PulseTimeoutLong(v) == 300

PulseTimeout(v) == IF v = "part000" THEN 150 ELSE IF v = "ino" THEN 200 ELSE 240

BufferSize(v) == IF v = "ino" THEN numReadRegBits ELSE BITBUFFERSIZE

pulseInNoSentinel(low, timeout) == IF low > 0 /\ low < timeout THEN low ELSE timeout

\* pulseIn(pin, LOW, timeout): the low time in microseconds, 0 on timeout.
pulseIn(low, timeout) == IF low > 0 /\ low < timeout THEN low ELSE 0

\* for (i = 0; i < size; i++) buffer[i] = pulseIn(...), stored in a uint8_t
SampleFill(v, pulses, lead) ==
    [i \in 0..(BufferSize(v) - 1) |->
        IF i - lead + 1 >= 1 /\ i - lead + 1 <= Len(pulses)
        THEN ToByte(pulseIn(pulses[i - lead + 1], PulseTimeout(v)))
        ELSE ToByte(pulseIn(0, PulseTimeout(v)))]

SampleLoop(v, r) == SampleFill(v, Pulses(r), r.lead)

(***************************************************************************)
(* Byte assembly, shared by both decoders:                                 *)
(*   tempByte = 0; for each of 8 bits { tempByte += bit; tempByte <<= 1; } *)
(***************************************************************************)
ShiftAfterAdd(tempByte, bit) == ToByte(ToByte(tempByte + bit) * 2)

RECURSIVE AssembleByte(_, _, _, _)
AssembleByte(bits, i, last, tempByte) ==
    IF i >= last THEN tempByte
    ELSE AssembleByte(bits, i + 1, last, ShiftAfterAdd(tempByte, bits[i]))

(***************************************************************************)
(* Decoder of part_000 ("new algorithm").  A read of rawData[idx] with     *)
(* idx >= BITBUFFERSIZE leaves the array: it yields the foreign byte       *)
(* `foreign`, whatever the build placed there.                             *)
(***************************************************************************)
ForeignBytes == {0, 1}

SlotChoices == {"kept", "clobbered"}

ClassifyNewLong(duration) == IF duration >= 55 /\ duration <= 75 THEN 1 ELSE 0

ClassifyNew(duration) == IF duration >= 25 /\ duration <= 45 THEN 1 ELSE 0

rawRead(buf, foreign, idx) == IF idx \in DOMAIN buf THEN buf[idx] ELSE foreign

\* The indices a uint8_t counter can take at which the scanned byte is not 0.
NonZeroAt(buf, foreign) ==
    {idx \in 0..(ByteRange - 1) : rawRead(buf, foreign, idx) # 0}

Lowest(S) == CHOOSE x \in S : \A y \in S : x <= y

Highest(S) == CHOOSE x \in S : \A y \in S : x >= y

\* uint8_t startBitIndex = 0; while (0 == rawData[startBitIndex]) startBitIndex++;
\* The counter wraps from 255 to 0: with no hit the loop never ends (-1).
StartScan(buf, foreign) ==
    IF NonZeroAt(buf, foreign) = {} THEN -1 ELSE Lowest(NonZeroAt(buf, foreign))

\* uint8_t endBitIndex = BITBUFFERSIZE - 1; while (0 == rawData[endBitIndex]) endBitIndex--;
\* The counter runs BITBUFFERSIZE-1 .. 0, then wraps to 255 and runs on down.
EndScan(buf, foreign) ==
    LET hits == NonZeroAt(buf, foreign)
        below == {idx \in hits : idx <= BITBUFFERSIZE - 1}
    IN  IF hits = {} THEN -1
        ELSE IF below # {} THEN Highest(below)
        ELSE Highest(hits)

\* rawData[i] = rawData[i + startBitIndex + 1], i = 0..BITBUFFERSIZE-1
ShiftLeft(buf, foreign, startBitIndex) ==
    [i \in 0..(BITBUFFERSIZE - 1) |-> rawRead(buf, foreign, i + startBitIndex + 1)]

\* endBitIndex -= (startBitIndex + 1), in uint8_t
AdjustEnd(endBitIndex, startBitIndex) ==
    ToByte(endBitIndex + 2 * ByteRange - (startBitIndex + 1))

ViableBytes(endBitIndex) == endBitIndex \div 8

\* byte viableData[endBitIndex-1]; for (i < endBitIndex) viableData[i] = rawData[i];
\* Element endBitIndex-1 lies past the declared length: what is read back
\* from it is the value written ("kept") or a foreign byte ("clobbered").
CopyViable(buf, foreign, slot, endBitIndex) ==
    [i \in 0..(endBitIndex - 1) |->
        IF i < endBitIndex - 1 \/ slot = "kept"
        THEN rawRead(buf, foreign, i)
        ELSE foreign]

DecodeFaults(startBitIndex, rawEnd, endBitIndex) ==
    (IF startBitIndex >= BITBUFFERSIZE \/ rawEnd >= BITBUFFERSIZE
        THEN {"scan_read"} ELSE {})
    \cup (IF BITBUFFERSIZE - 1 + startBitIndex + 1 >= BITBUFFERSIZE
        THEN {"shift_read"} ELSE {})
    \cup (IF endBitIndex - 1 < 0 THEN {"vla_size"} ELSE {})
    \cup (IF endBitIndex > BITBUFFERSIZE THEN {"copy_read"} ELSE {})
    \cup (IF endBitIndex >= 1 THEN {"vla_write"} ELSE {})
    \cup (IF endBitIndex >= 1 /\ 8 * ViableBytes(endBitIndex) = endBitIndex
        THEN {"vla_read"} ELSE {})
    \cup (IF ViableBytes(endBitIndex) > RegisterBytes THEN {"reg_write"} ELSE {})

DecodeNew(buf, reg, foreign, slot) ==
    LET bits == [i \in 0..(BITBUFFERSIZE - 1) |-> ClassifyNew(buf[i])]
        startBitIndex == StartScan(bits, foreign)
    IN  IF startBitIndex = -1
        THEN [hung |-> TRUE, rawData |-> bits, registerByte |-> reg,
              fault |-> {"scan_read"},
              locals |-> [startBitIndex |-> 0, endBitIndex |-> 0, adjustedEnd |-> 0,
                          viableBytes |-> 0]]
        ELSE
        LET rawEnd == EndScan(bits, foreign)
            shifted == ShiftLeft(bits, foreign, startBitIndex)
            endBitIndex == AdjustEnd(rawEnd, startBitIndex)
            viableData == CopyViable(shifted, foreign, slot, endBitIndex)
            viableBytes == ViableBytes(endBitIndex)
        IN  [hung |-> FALSE,
             rawData |-> shifted,
             registerByte |->
                [c \in 0..(RegisterBytes - 1) |->
                    IF c < viableBytes
                    THEN AssembleByte(viableData, ((c + 1) * 8) - 8, (c + 1) * 8, 0)
                    ELSE reg[c]],
             fault |-> DecodeFaults(startBitIndex, rawEnd, endBitIndex),
             locals |-> [startBitIndex |-> startBitIndex, endBitIndex |-> rawEnd,
                         adjustedEnd |-> endBitIndex, viableBytes |-> viableBytes]]

(***************************************************************************)
(* Decoder of adb_host.ino ("old algorithm"): drops sample 0, classifies   *)
(* 64 samples into registerBit, assembles 8 bytes.                         *)
(***************************************************************************)
ShiftOld(dur) ==
    [i \in 0..(numReadRegBits - 1) |-> IF i < RegisterBits THEN dur[i + 1] ELSE dur[i]]

\* 30..40 -> 1, 60..70 -> 0, anything else leaves registerBit[i] as it was
ClassifyOld(duration, old) ==
    IF duration >= 30 /\ duration <= 40 THEN 1
    ELSE IF duration >= 60 /\ duration <= 70 THEN 0
    ELSE old

DecodeOld(dur, regBit) ==
    LET shifted == ShiftOld(dur)
        bits == [i \in 0..(RegisterBits - 1) |-> ClassifyOld(shifted[i], regBit[i])]
    IN  [rawData |-> shifted,
         registerBit |-> bits,
         registerByte |->
            [a \in 0..(RegisterBytes - 1) |->
                AssembleByte(bits, ((a + 1) * 8) - 8, (a + 1) * 8, 0)]]

(***************************************************************************)
(* Serial.print(value, HEX) / Serial.print(value, BIN): the digits of the  *)
(* value in that base, most significant first, no leading zeros.           *)
(***************************************************************************)
RECURSIVE PrintNumber(_, _)
PrintNumber(value, base) ==
    IF value < base THEN <<value>>
    ELSE PrintNumber(value \div base, base) \o <<value % base>>

PrintBase(v) == IF v = "ino" THEN 2 ELSE 16

PrintRegister(v, reg) ==
    [i \in 0..(RegisterBytes - 1) |-> PrintNumber(reg[i], PrintBase(v))]

(***************************************************************************)
(* Serial output: Serial.write(b) puts the byte b on the port;             *)
(* Serial.print(value, base) puts the ASCII digits of the value, followed  *)
(* in relayADB by a separator, and Serial.println("") ends the line.       *)
(***************************************************************************)
DigitChar(d) == IF d < 10 THEN 48 + d ELSE 55 + d

SeparatorIsMarker(v) == ReadyMarker

Separator(v) == IF v = "ino" THEN 32 ELSE 9

LineEnd == <<13, 10>>

RECURSIVE PrintChars(_, _, _)
PrintChars(v, reg, i) ==
    IF i >= RegisterBytes THEN LineEnd
    ELSE [k \in 1..Len(PrintNumber(reg[i], PrintBase(v))) |->
              DigitChar(PrintNumber(reg[i], PrintBase(v))[k])]
         \o <<Separator(v)>> \o PrintChars(v, reg, i + 1)

\* The four Serial.println texts of setup() in adb_host.ino.
SetupLines ==
    << <<83, 101, 114, 105, 97, 108, 32, 99, 111, 109, 109, 117, 110, 105, 99, 97,
         116, 105, 111, 110, 32, 97, 99, 116, 105, 118, 97, 116, 101, 100>>,
       <<65, 68, 66, 32, 105, 115, 32, 97, 116, 32, 43, 53, 86>>,
       <<71, 108, 111, 98, 97, 108, 32, 114, 101, 115, 101, 116, 32, 105, 110, 105,
         116, 105, 97, 116, 101, 100, 59, 32, 100, 101, 118, 105, 99, 101, 115, 32,
         104, 97, 118, 101, 32, 98, 101, 101, 110, 32, 115, 101, 116, 32, 116, 111,
         32, 100, 101, 102, 97, 117, 108, 116, 115>>,
       <<87, 97, 105, 116, 105, 110, 103, 32, 102, 111, 114, 32, 105, 110, 112, 117,
         116>> >>

SetupWrites(v) ==
    IF v \in Passthrough THEN <<ReadyMarker>>
    ELSE SetupLines[1] \o LineEnd \o SetupLines[2] \o LineEnd
         \o SetupLines[3] \o LineEnd \o SetupLines[4] \o LineEnd

(***************************************************************************)
(* Bus direction.                                                          *)
(***************************************************************************)
setBusAsOutputSensed == [mode |-> "INPUT", level |-> "HIGH"]

setBusAsOutput == [mode |-> "OUTPUT", level |-> "HIGH"]

setBusAsInput == [mode |-> "INPUT", level |-> "HIGH"]

(***************************************************************************)
(* Calls in program order: trace records <<call, argument>> for every call *)
(* of setup() and loop() that touches the line or the serial port.         *)
(***************************************************************************)
Ev(name, arg) == <<name, arg>>

SetupEvents(v) ==
    IF v = "part000" THEN <<Ev("reset", 0), Ev("write", ReadyMarker)>>
    ELSE IF v = "pde" THEN <<Ev("output", 0), Ev("reset", 0), Ev("write", ReadyMarker)>>
    ELSE <<Ev("text", 1), Ev("output", 0), Ev("text", 2), Ev("reset", 0),
           Ev("text", 3), Ev("text", 4)>>

\* Serial.read(): the passthrough sketches use the byte itself, adb_host.ino
\* only uses it to select the case of its switch.
ReadEvent(v, inByte) ==
    IF v \in Passthrough THEN Ev("read", inByte)
    ELSE Ev("case", IF inByte = CommandA THEN CommandA ELSE 0)

\* The command word loop() hands to sendCommandByte for the byte it read.
CommandForMasked(v, inByte) ==
    IF v \in Passthrough THEN inByte % 64 ELSE Register3Command

CommandFor(v, inByte) == IF v \in Passthrough THEN inByte ELSE Register3Command

(***************************************************************************)
(* State machine: setup(), then loop() as its steps in program order.      *)
(***************************************************************************)
\* Bytes the computer may send over the serial port.
SerialBytes == {CommandA, Register3Command}

AllBytes == 0..(ByteRange - 1)

ZeroBytes == [i \in 0..(RegisterBytes - 1) |-> 0]

NothingPrinted == [i \in 0..(RegisterBytes - 1) |-> <<>>]

NoLocals == [startBitIndex |-> 0, endBitIndex |-> 0, adjustedEnd |-> 0, viableBytes |-> 0]

LastLevel(writes, level) == IF writes = <<>> THEN level ELSE writes[Len(writes)][1]

Init ==
    /\ variant \in Variants
    /\ pc = "setup"
    /\ wire = <<>>
    /\ sent = -1
    /\ busMode = "INPUT"
    /\ busLevel = "LOW"
    /\ rawData = [i \in 0..(BufferSize(variant) - 1) |-> 0]
    /\ registerBit = [i \in 0..(RegisterBits - 1) |-> 0]
    /\ registerByte = ZeroBytes
    /\ locals = NoLocals
    /\ report = NothingPrinted
    /\ reply = NoCycle
    /\ prevReply = NoCycle
    /\ prevReport = NothingPrinted
    /\ fault = {}
    /\ written = <<>>
    /\ cycles = 0
    /\ trace = <<>>

\* setup(): pin direction, global reset, ready marker (passthrough sketches)
Setup ==
    /\ pc = "setup"
    /\ busMode' = "OUTPUT"
    /\ wire' = ADBglobalReset(variant)
    /\ busLevel' = LastLevel(ADBglobalReset(variant), busLevel)
    /\ written' = written \o SetupWrites(variant)
    /\ trace' = trace \o SetupEvents(variant)
    /\ pc' = "idle"
    /\ UNCHANGED <<variant, sent, rawData, registerBit, registerByte, locals, report,
                   reply, prevReply, prevReport, fault, cycles>>

\* loop(): Serial.read() and the transmit phase
LoopRead(inByte) ==
    /\ pc = "idle"
    /\ cycles < MaxCycles
    /\ cycles' = cycles + 1
    /\ IF variant \in Passthrough \/ inByte = CommandA
       THEN /\ sent' = CommandFor(variant, inByte)
            /\ wire' = sendCommandByte(variant, CommandFor(variant, inByte))
            /\ busLevel' =
                  LastLevel(sendCommandByte(variant, CommandFor(variant, inByte)), busLevel)
            /\ trace' = trace \o <<ReadEvent(variant, inByte),
                                   Ev("send", CommandFor(variant, inByte))>>
            /\ pc' = "relay"
            /\ UNCHANGED busMode
       ELSE /\ busMode' = setBusAsOutput.mode
            /\ busLevel' = setBusAsOutput.level
            /\ trace' = trace \o <<ReadEvent(variant, inByte), Ev("output", 0)>>
            /\ pc' = "idle"
            /\ UNCHANGED <<sent, wire>>
    /\ UNCHANGED <<variant, rawData, registerBit, registerByte, locals, report,
                   reply, prevReply, prevReport, fault, written>>

\* relayADB(): setBusAsInput() where the sketch has it
BeginRelay ==
    /\ pc = "relay"
    /\ pc' = "sensing"
    /\ IF variant = "part000"
       THEN /\ trace' = Append(trace, Ev("relay", 0))
            /\ UNCHANGED <<busMode, busLevel>>
       ELSE /\ trace' = trace \o <<Ev("relay", 0), Ev("input", 0)>>
            /\ busMode' = setBusAsInput.mode
            /\ busLevel' = setBusAsInput.level
    /\ UNCHANGED <<variant, wire, sent, rawData, registerBit, registerByte, locals,
                   report, reply, prevReply, prevReport, fault, written, cycles>>

\* relayADB(): the sampling loop, then setBusAsOutput() where the sketch has it
Sample(r) ==
    /\ pc = "sensing"
    /\ rawData' = SampleLoop(variant, r)
    /\ reply' = r
    /\ prevReply' = reply
    /\ prevReport' = report
    /\ fault' = {}
    /\ IF variant = "part000"
       THEN /\ trace' = Append(trace, Ev("sample", 0))
            /\ UNCHANGED <<busMode, busLevel>>
       ELSE /\ trace' = trace \o <<Ev("sample", 0), Ev("output", 0)>>
            /\ busMode' = setBusAsOutput.mode
            /\ busLevel' = setBusAsOutput.level
    /\ pc' = IF variant = "pde" THEN "reporting" ELSE "decoding"
    /\ UNCHANGED <<variant, wire, sent, registerBit, registerByte, locals, report,
                   written, cycles>>

\* relayADB() of part_000: classification to byte assembly
DecodeNewStep(foreign, slot) ==
    /\ pc = "decoding"
    /\ variant = "part000"
    /\ \E d \in {DecodeNew(rawData, registerByte, foreign, slot)} :
           /\ rawData' = d.rawData
           /\ registerByte' = d.registerByte
           /\ fault' = d.fault
           /\ locals' = d.locals
           /\ pc' = IF d.hung THEN "hung" ELSE "reporting"
    /\ trace' = Append(trace, Ev("decode", 0))
    /\ UNCHANGED <<variant, wire, sent, busMode, busLevel, registerBit, report,
                   reply, prevReply, prevReport, written, cycles>>

\* relayADB() of adb_host.ino: shift, classification, byte assembly
DecodeOldStep ==
    /\ pc = "decoding"
    /\ variant = "ino"
    /\ \E d \in {DecodeOld(rawData, registerBit)} :
           /\ rawData' = d.rawData
           /\ registerBit' = d.registerBit
           /\ registerByte' = d.registerByte
    /\ pc' = "reporting"
    /\ trace' = Append(trace, Ev("decode", 0))
    /\ UNCHANGED <<variant, wire, sent, busMode, busLevel, locals, report,
                   reply, prevReply, prevReport, fault, written, cycles>>

\* relayADB(): the eight Serial.print calls and the return; in adb_host.ino
\* loop() then falls through to the default case, setBusAsOutput()
Report ==
    /\ pc = "reporting"
    /\ report' = PrintRegister(variant, registerByte)
    /\ written' = written \o PrintChars(variant, registerByte, 0)
    /\ pc' = "idle"
    /\ IF variant = "ino"
       THEN /\ trace' = trace \o <<Ev("print", 0), Ev("return", 0), Ev("output", 0)>>
            /\ busMode' = setBusAsOutput.mode
            /\ busLevel' = setBusAsOutput.level
       ELSE /\ trace' = trace \o <<Ev("print", 0), Ev("return", 0)>>
            /\ UNCHANGED <<busMode, busLevel>>
    /\ UNCHANGED <<variant, wire, sent, rawData, registerBit, registerByte, locals,
                   reply, prevReply, prevReport, fault, cycles>>

Next ==
    \/ Setup
    \/ \E inByte \in SerialBytes : LoopRead(inByte)
    \/ BeginRelay
    \/ \E r \in Replies : Sample(r)
    \/ \E foreign \in ForeignBytes, slot \in SlotChoices : DecodeNewStep(foreign, slot)
    \/ DecodeOldStep
    \/ Report

Spec == Init /\ [][Next]_vars

\* The transmit phase alone, for every byte the serial port can deliver.
NextSend ==
    \/ Setup
    \/ \E inByte \in AllBytes : LoopRead(inByte)

SpecSend == Init /\ [][NextSend]_vars

\* Low times around the per-pulse timeouts and beyond the range of a byte.
LongLows == {149, 199, 239, 291}

\* The whole command cycle with a few replies: nothing, one isolated pulse
\* (short or long), a one-byte frame, a late one-byte frame with a stop pulse.
FewReplies ==
    { NoReply, SinglePulse(0, ShortMicros),
      Frame(0, ShortMicros, BitsOf(<<129>>), ShortMicros),
      Frame(MaxLead, ShortMicros, BitsOf(<<1>>), StopMicros) }
    \cup { SinglePulse(0, low) : low \in LongLows }

LoopBytes == {0, Register3Command, CommandA, 255}

NextLoop ==
    \/ Setup
    \/ \E inByte \in LoopBytes : LoopRead(inByte)
    \/ BeginRelay
    \/ \E r \in FewReplies : Sample(r)
    \/ \E foreign \in ForeignBytes, slot \in SlotChoices : DecodeNewStep(foreign, slot)
    \/ DecodeOldStep
    \/ Report

SpecLoop == Init /\ [][NextLoop]_vars

(***************************************************************************)
(* Properties.                                                             *)
(***************************************************************************)
\* Most-significant-bit-first value of payload bits 8n..8n+7 (bits is 1-based).
MsbValue(bits, n) ==
    bits[8 * n + 1] * 128 + bits[8 * n + 2] * 64 + bits[8 * n + 3] * 32
    + bits[8 * n + 4] * 16 + bits[8 * n + 5] * 8 + bits[8 * n + 6] * 4
    + bits[8 * n + 7] * 2 + bits[8 * n + 8]

WholeBytes(bits) == Len(bits) \div 8

Transmitted == pc = "relay" /\ variant \in {"ino", "pde"}

\* C1: for every command word w, sendCommandByte(w) of adb_host.ino and
\* adb_host.pde writes exactly: attention (low 800 us), sync (high 65 us),
\* eight cells where cell k is a true cell (low 35, high 65) if bit 7-k of w
\* is 1 and a false cell (low 65, high 35) otherwise, then the stop pulse
\* (low 70 us, then high); for w = 0b00111111 the cells are false, false and
\* six times true.
C1_CommandWireFormat ==
    Transmitted =>
        /\ Len(wire) = 20
        /\ wire[1] = <<"LOW", 800>>
        /\ wire[2] = <<"HIGH", 65>>
        /\ \A k \in 0..7 :
              IF (sent \div (2 ^ (7 - k))) % 2 = 1
              THEN wire[3 + 2 * k] = <<"LOW", 35>> /\ wire[4 + 2 * k] = <<"HIGH", 65>>
              ELSE wire[3 + 2 * k] = <<"LOW", 65>> /\ wire[4 + 2 * k] = <<"HIGH", 35>>
        /\ wire[19] = <<"LOW", 70>>
        /\ wire[20] = <<"HIGH", 0>>
        /\ (sent = 63 =>
              [k \in 0..7 |-> wire[3 + 2 * k][2]] =
                  [k \in 0..7 |-> IF k < 2 THEN 65 ELSE 35])

\* C1 witness: the passthrough sketch has sent 0b00111111, first cell false,
\* third cell true.
C1_Witness ==
    /\ pc = "relay"
    /\ variant = "pde"
    /\ sent = 63
    /\ wire[3] = <<"LOW", 65>>
    /\ wire[7] = <<"LOW", 35>>

\* The reply of this cycle is a frame whose markers the decoder in use
\* recognises and whose payload starts where the decoder takes it from.
CleanFrame ==
    /\ reply.kind = "frame"
    /\ reply.start = 35
    /\ reply.stop = 35
    /\ (variant = "ino" => reply.lead = 0)

\* Number of bytes the decoder of this cycle has written.
DecodedBytes == IF variant = "ino" THEN RegisterBytes ELSE locals.viableBytes

\* C2: after byte assembly (part_000, adb_host.ino) every decoded byte n holds
\* the most-significant-bit-first value of payload bits 8n..8n+7.
C2_BytesAreMsbFirst ==
    (pc = "reporting" /\ variant \in {"part000", "ino"} /\ CleanFrame) =>
        \A n \in 0..7 :
            (n < WholeBytes(reply.bits) /\ n < DecodedBytes)
                => registerByte[n] = MsbValue(reply.bits, n)

\* C3: a raw sample buffer of timeouts only (no device answered) is decoded by
\* part_000 without finding a start index, to zero response bytes, and with
\* no read outside rawData.
C3_TimeoutBufferDecodesEmpty ==
    (variant = "part000" /\ reply.kind = "none" /\ pc \in {"reporting", "hung"}) =>
        /\ pc = "reporting"
        /\ locals.viableBytes = 0
        /\ registerByte = ZeroBytes
        /\ "scan_read" \notin fault

\* C4: timeouts, a start marker, 24 bit cells, a stop marker, timeouts: part_000
\* decodes exactly 3 response bytes whose bits are the 24 payload bits in order.
C4_ThreeByteFrame ==
    (variant = "part000" /\ pc = "reporting" /\ reply.kind = "frame"
        /\ Len(reply.bits) = 24) =>
        /\ locals.viableBytes = 3
        /\ \A n \in 0..2 : registerByte[n] = MsbValue(reply.bits, n)

\* C5: a frame with a 20-bit payload makes part_000 write exactly 2 response
\* bytes: floor(20 / 8), the 4 trailing bits are dropped and no third byte is
\* written.
C5_TrailingBitsDropped ==
    (variant = "part000" /\ pc = "reporting" /\ reply.kind = "frame"
        /\ Len(reply.bits) = 20) =>
        /\ locals.viableBytes = 2
        /\ locals.viableBytes = WholeBytes(reply.bits)
        /\ registerByte[2] = 0

\* C6: a start marker, the 64 cells of eight 0xAA bytes and a stop marker are
\* decoded by part_000 to exactly eight bytes, each 0xAA, wherever the frame
\* starts in the buffer.
C6_EightByteReply ==
    (variant = "part000" /\ pc = "reporting" /\ reply.kind = "frame"
        /\ reply.bits = BitsOf(<<170, 170, 170, 170, 170, 170, 170, 170>>)) =>
        /\ locals.viableBytes = 8
        /\ \A n \in 0..7 : registerByte[n] = 170

\* C7: whatever the raw sample buffer holds, part_000 produces 0 to 8 response
\* bytes and writes registerByte only at indices 0..7 (stated here for the
\* buffers that hold a start and a stop marker the decoder recognises).
C7_AtMostEightBytes ==
    (variant = "part000" /\ pc = "reporting" /\ CleanFrame) =>
        /\ locals.viableBytes \in 0..8
        /\ "reg_write" \notin fault

\* C8: after every command cycle part_000 reports eight values, and every byte
\* position for which the peripheral sent no data in that cycle is reported
\* as 0 (stated here for the cycles in which the peripheral answered with a
\* frame, as it did in the cycle before, if there was one).
C8_EmptyPositionsReportZero ==
    (variant = "part000" /\ pc = "idle" /\ reply.kind = "frame"
        /\ prevReply.kind \in {"null", "frame"}) =>
        /\ DOMAIN report = 0..7
        /\ \A i \in 0..7 : i >= WholeBytes(reply.bits) => report[i] = <<0>>

\* C9: in the passthrough sketches two replies with the same number of
\* payload bytes and different payload bits are reported with different
\* byte values.
C9_ReportDeterminedByReply ==
    (variant \in Passthrough /\ pc = "idle"
        /\ reply.kind = "frame" /\ prevReply.kind = "frame"
        /\ Len(reply.bits) = Len(prevReply.bits)
        /\ Len(reply.bits) % 8 = 0
        /\ reply.bits # prevReply.bits) =>
        report # prevReport

\* C10: decoding the same raw sample buffer contents twice in succession
\* (part_000) completes both times with identical response bytes.
C10_DecodeTwiceSameBytes ==
    (variant = "part000" /\ pc \in {"idle", "hung"}
        /\ reply.kind # "null" /\ reply = prevReply) =>
        /\ pc = "idle"
        /\ report = prevReport

\* C11: the receive phase of part_000 always completes: whatever the raw
\* sample buffer holds (all timeouts and a single pulse included), relayADB
\* gets through the start and end scans, which stay inside the buffer, and
\* on to reporting.
C11_ReceivePhaseReturns ==
    variant = "part000" =>
        /\ pc # "hung"
        /\ (pc = "reporting" => "scan_read" \notin fault)

\* C12: in every sketch ADBglobalReset drives the line low for 3 ms, then
\* releases it to idle-high and waits 5 ms, so the line is at idle level
\* when setup() goes on.
C12_ResetLowThenSettle ==
    (pc = "idle" /\ cycles = 0) =>
        /\ wire = << <<LowLevel(variant), 3000>>, <<HighLevel(variant), 5000>> >>
        /\ busLevel = HighLevel(variant)

\* Positions of the serial output stream that hold the ready marker.
MarkerPositions == {i \in DOMAIN written : written[i] = ReadyMarker}

\* C13: in the passthrough sketches the byte 0x21 is written exactly once:
\* right after the global reset, before any byte is read from the serial
\* port, as the first byte of the output stream, and no command or report
\* puts it on the port again.
C13_ReadyMarkerOnce ==
    (variant \in Passthrough /\ pc # "setup") =>
        /\ MarkerPositions = {1}
        /\ \E i \in DOMAIN trace :
              /\ trace[i] = Ev("write", ReadyMarker)
              /\ i > 1 /\ trace[i - 1] = Ev("reset", 0)
              /\ \A j \in DOMAIN trace :
                    /\ (j < i => trace[j][1] # "read")
                    /\ (j # i => trace[j][1] # "write")

\* C13 witness: two commands have been answered and reported after the marker.
C13_Witness ==
    /\ variant = "part000"
    /\ pc = "idle"
    /\ cycles = 2
    /\ Len(written) > 20
    /\ written[1] = ReadyMarker

\* The calls of one kind in the trace, in order.
Calls(name) == SelectSeq(trace, LAMBDA ev : ev[1] = name)

C15_DrivenOnReturn ==
    variant \in {"ino", "pde"} =>
        /\ (pc = "sensing" => busMode = "INPUT" /\ busLevel = "HIGH")
        /\ (pc \in {"decoding", "reporting"} \/ (pc = "idle" /\ cycles > 0)) =>
              (busMode = "OUTPUT" /\ busLevel = "HIGH")
        /\ \A i \in DOMAIN trace :
              /\ trace[i][1] = "sample" =>
                    /\ i > 1 /\ trace[i - 1] = Ev("input", 0)
                    /\ i < Len(trace) /\ trace[i + 1] = Ev("output", 0)
              /\ trace[i][1] = "return" =>
                    \E j \in 1..(i - 1) :
                        /\ trace[j] = Ev("output", 0)
                        /\ \A k \in (j + 1)..(i - 1) : trace[k][1] # "input"

\* C15 witness: relayADB of adb_host.pde has sampled a frame and returned.
C15_Witness ==
    /\ variant = "pde"
    /\ pc = "idle"
    /\ reply.kind = "frame"
    /\ Len(Calls("return")) = 1
    /\ busMode = "OUTPUT"

\* What the sampler stores for a low pulse of the given length.
Sampled(v, low) == ToByte(pulseIn(low, PulseTimeout(v)))

\* C16: every cell sendCommandByte puts on the line lasts 100 us, and the
\* low time of a true cell (35 us) is classified as 1, that of a false cell
\* (65 us) as 0, by the classifier of part_000 and by the one of
\* adb_host.ino (whatever registerBit held before).
C16_BitRoundTrip ==
    pc = "relay" =>
        \A k \in 0..7 :
            /\ wire[3 + 2 * k][2] + wire[4 + 2 * k][2] = 100
            /\ wire[3 + 2 * k][2] = (IF bitRead(sent, 7 - k) = 1 THEN 35 ELSE 65)
            /\ ClassifyNew(Sampled("part000", wire[3 + 2 * k][2])) = bitRead(sent, 7 - k)
            /\ \A old \in {0, 1} :
                  ClassifyOld(Sampled("ino", wire[3 + 2 * k][2]), old) = bitRead(sent, 7 - k)

\* C16 witness: the command 0xA5 is on the line, its first cell a true cell,
\* its second a false cell.
C16_Witness ==
    /\ pc = "relay"
    /\ variant = "part000"
    /\ sent = 165
    /\ wire[3] = <<"HIGH", 35>>
    /\ wire[5] = <<"HIGH", 65>>

\* C17: when exactly one sample of the buffer is bit-classified (start index
\* = end index), part_000 treats the frame as empty: the adjusted end index
\* does not wrap below zero, zero bytes are produced and no access leaves
\* rawData, viableData or registerByte.
C17_SinglePulseIsEmptyFrame ==
    (variant = "part000" /\ pc = "reporting" /\ reply.kind = "pulse") =>
        /\ locals.startBitIndex = locals.endBitIndex
        /\ locals.adjustedEnd = 0
        /\ locals.viableBytes = 0
        /\ fault = {}

\* The label the decoder has stored for the sample that is i places after
\* the start marker's successor.
Label(i) == IF variant = "ino" THEN registerBit[i] ELSE rawData[i]

\* C18: the classification gives a 35 us sample the label true-bit, and a
\* 65 us sample a label that differs from the label of a timeout sample
\* (part_000, adb_host.ino).  Payload bit k is the sample Label(k - 1), the
\* first sample after the stop marker is a timeout.
C18_ThreeLabels ==
    (pc = "reporting" /\ variant \in {"part000", "ino"} /\ CleanFrame
        /\ Len(reply.bits) + 1 < RegisterBits) =>
        \A k \in DOMAIN reply.bits :
            /\ reply.bits[k] = 1 => Label(k - 1) = 1
            /\ reply.bits[k] = 0 => Label(k - 1) # Label(Len(reply.bits) + 1)

\* A recorded duration inside the short window (35 us, 10 us tolerance) or
\* the long window (65 us, narrow enough to leave the 70 us stop pulse out).
IsTrueBit(duration) == duration >= 25 /\ duration <= 45

IsFalseBit(duration) == duration > 60 /\ duration < 70

BitIndices(raw) == {i \in DOMAIN raw : IsTrueBit(raw[i]) \/ IsFalseBit(raw[i])}

\* C19: for a buffer with at least two bit-classified samples part_000 takes
\* the smallest bit-classified index as start, the largest as stop, and as
\* payload the stop - start - 1 samples between them, in order.
C19_PayloadBetweenMarkers ==
    (variant = "part000" /\ pc = "reporting" /\ reply.kind = "frame") =>
        \A raw \in {SampleLoop(variant, reply)} :
            Cardinality(BitIndices(raw)) >= 2 =>
                /\ locals.startBitIndex = Lowest(BitIndices(raw))
                /\ locals.endBitIndex = Highest(BitIndices(raw))
                /\ locals.adjustedEnd = locals.endBitIndex - locals.startBitIndex - 1
                /\ \A i \in 0..(locals.adjustedEnd - 1) :
                      rawData[i] =
                          (IF IsTrueBit(raw[locals.startBitIndex + 1 + i]) THEN 1 ELSE 0)

\* C20: from the end of sampling until the bytes are reported the raw sample
\* buffer is not written: when relayADB reports, rawData (part_000) and
\* registerBitDuration (adb_host.ino) still hold what the sampling loop
\* stored (stated here for the phases in which a frame was sampled).
C20_RawBufferKeptAsSampled ==
    (pc = "reporting" /\ variant \in {"part000", "ino"} /\ reply.kind = "frame") =>
        rawData = SampleLoop(variant, reply)

\* C21: in adb_host.ino and adb_host.pde the line is always in one of the
\* two modes, and ADBglobalReset and sendCommandByte run with the line
\* driven: the last mode switch before each of the two calls is
\* setBusAsOutput, and the line is still driven when the call has returned.
C21_DrivenWhileSending ==
    variant \in {"ino", "pde"} =>
        /\ busMode \in {"INPUT", "OUTPUT"}
        /\ (pc = "relay" \/ (pc = "idle" /\ cycles = 0)) => busMode = "OUTPUT"
        /\ \A i \in DOMAIN trace :
              trace[i][1] \in {"reset", "send"} =>
                  /\ \E j \in 1..(i - 1) :
                        /\ trace[j] = Ev("output", 0)
                        /\ \A k \in (j + 1)..(i - 1) : trace[k][1] # "input"
                  /\ (i < Len(trace) => trace[i + 1][1] # "input")

\* C21 witness: adb_host.ino has sent its second command, after a receive
\* phase that had switched the line to sensed mode.
C21_Witness ==
    /\ variant = "ino"
    /\ pc = "relay"
    /\ Len(Calls("send")) = 2
    /\ Len(Calls("input")) = 1
    /\ busMode = "OUTPUT"

\* C22: whenever adb_host.ino or adb_host.pde waits in loop() for a serial
\* byte, after setup and after every cycle, the pin is an output and is
\* driven HIGH, also after a byte that triggers no command.
C22_IdleDrivenHigh ==
    (variant \in {"ino", "pde"} /\ pc = "idle") =>
        /\ busMode = "OUTPUT"
        /\ busLevel = "HIGH"

\* C22 witness: adb_host.ino is idle after a byte that selected no command
\* and a command cycle.
C22_Witness ==
    /\ variant = "ino"
    /\ pc = "idle"
    /\ Calls("case") = <<Ev("case", 0), Ev("case", CommandA)>>
    /\ Len(Calls("return")) = 1
    /\ busLevel = "HIGH"

\* C23: the 70 us stop pulse of ADBstartstopBit lies in no window of the
\* classifier, so decoding a frame that ends in a stop pulse does not give
\* that pulse a bit value: adb_host.ino leaves the registerBit entry of the
\* pulse as it was, part_000 does not label it 1.  The frame starts at
\* index 0, so the stop pulse is sample Len(reply.bits) after the shift.
C23_StopPulseIsNoBit ==
    [][(pc = "decoding" /\ reply.kind = "frame" /\ reply.lead = 0
          /\ reply.start = ShortMicros /\ reply.stop = StopMicros
          /\ Len(reply.bits) < RegisterBits) =>
          /\ (variant = "ino" =>
                registerBit'[Len(reply.bits)] = registerBit[Len(reply.bits)])
          /\ (variant = "part000" => rawData'[Len(reply.bits)] # 1)]_vars

\* The sampling loop has just filled the buffer and nothing has rewritten it.
JustSampled == pc = "decoding" \/ (variant = "pde" /\ pc = "reporting")

\* C24: the sampling loop of adb_host.pde and part_000 makes exactly 100
\* measurements, measurement k stored at index k: timeouts (0) up to the
\* first pulse, then the low times of the start marker, the cells and the
\* stop marker in order, and 0 in every entry after the last pulse.
C24_HundredMeasurements ==
    (variant \in Passthrough /\ JustSampled /\ reply.kind \in {"none", "frame"}) =>
        /\ DOMAIN rawData = 0..99
        /\ reply.kind = "none" => \A i \in 0..99 : rawData[i] = 0
        /\ reply.kind = "frame" =>
              /\ \A i \in 0..(reply.lead - 1) : rawData[i] = 0
              /\ rawData[reply.lead] = reply.start
              /\ \A k \in 1..Len(reply.bits) :
                    rawData[reply.lead + k] = (IF reply.bits[k] = 1 THEN 35 ELSE 65)
              /\ rawData[reply.lead + Len(reply.bits) + 1] = reply.stop
              /\ \A i \in (reply.lead + Len(reply.bits) + 2)..99 : rawData[i] = 0

\* C24 witness: part_000 has sampled a one-byte frame that began after a
\* timeout; the entries behind its stop pulse are 0.
C24_Witness ==
    /\ variant = "part000"
    /\ pc = "decoding"
    /\ reply = Frame(MaxLead, ShortMicros, BitsOf(<<1>>), StopMicros)
    /\ rawData[MaxLead] = 35
    /\ rawData[MaxLead + 9] = 70
    /\ rawData[MaxLead + 10] = 0
    /\ rawData[99] = 0

\* C30: under the configured timeouts (150, 200, 240 us) every duration a
\* measurement returns is below 256: the byte stored for a pulse is its
\* low time, or 0 when the pulse is not shorter than the timeout, and never
\* a low time reduced modulo 256.
C30_StoredEqualsMeasured ==
    (JustSampled /\ reply.kind = "pulse") =>
        /\ PulseTimeout(variant) <= ByteRange
        /\ \A i \in DOMAIN rawData : rawData[i] < PulseTimeout(variant)
        /\ rawData[reply.lead] \in {0, reply.start}
        /\ (rawData[reply.lead] = 0 <=> reply.start >= PulseTimeout(variant))

\* C30 witness: adb_host.pde has stored a 239 us pulse as 239.
C30_Witness ==
    /\ variant = "pde"
    /\ pc = "reporting"
    /\ reply = SinglePulse(0, 239)
    /\ rawData[0] = 239

C26_ShiftStaysInBuffer ==
    (variant = "part000" /\ pc = "reporting" /\ CleanFrame) =>
        /\ "shift_read" \notin fault
        /\ \A i \in (BITBUFFERSIZE - 1 - locals.startBitIndex)..(BITBUFFERSIZE - 1) :
              rawData[i] = 0

\* C27: for a frame with an n-bit payload (n = adjusted end index) the
\* declared length of viableData, endBitIndex - 1, is not negative, the copy
\* loop writes inside the declared elements only, and the byte assembly
\* reads the payload bits back from inside them.
C27_ViableDataHoldsPayload ==
    (variant = "part000" /\ pc = "reporting" /\ CleanFrame) =>
        /\ locals.adjustedEnd = Len(reply.bits)
        /\ locals.adjustedEnd - 1 >= 0
        /\ fault \cap {"vla_size", "vla_write", "vla_read"} = {}

\* What adb_host.ino reports for a reply in its first cycle after reset.
FreshReport(r) ==
    PrintRegister("ino",
        DecodeOld(SampleLoop("ino", r), [i \in 0..(RegisterBits - 1) |-> 0]).registerByte)

\* C28: the eight bytes adb_host.ino reports depend on the samples of the
\* current receive phase only: after any earlier cycle they are the bytes
\* reported for the same samples in the first cycle after reset.
C28_ReportFromCurrentSamples ==
    (variant = "ino" /\ pc = "idle" /\ reply.kind # "null") =>
        report = FreshReport(reply)

\* The steps of a command word w, written with the level `first` for the
\* attention pulse and the first half of every cell and the stop pulse.
StepsOf(w, first, second) ==
    << <<first, 800>>, <<second, 65>> >>
    \o [n \in 1..16 |->
          IF n % 2 = 1
          THEN <<first, IF bitRead(w, 7 - ((n - 1) \div 2)) = 1 THEN 35 ELSE 65>>
          ELSE <<second, IF bitRead(w, 7 - ((n - 1) \div 2)) = 1 THEN 65 ELSE 35>>]
    \o << <<first, 70>>, <<second, 0>> >>

\* C29: for every command word the steps part_000 writes to ADB_OUT are the
\* level-inverse of the steps adb_host.ino (and adb_host.pde, whose
\* sendCommandByte is the same) writes to ADB_pin: the same durations in the
\* same order (800, 65, eight cells 35/65 or 65/35, 70), HIGH where the
\* other writes LOW and LOW where it writes HIGH.
C29_InverseLevels ==
    pc = "relay" =>
        wire = IF variant = "part000" THEN StepsOf(sent, "HIGH", "LOW")
                                      ELSE StepsOf(sent, "LOW", "HIGH")

\* C29 witness: part_000 has sent 0xA5: attention written as HIGH, the first
\* cell a true cell written HIGH 35, LOW 65.
C29_Witness ==
    /\ variant = "part000"
    /\ pc = "relay"
    /\ sent = 165
    /\ wire[1] = <<"HIGH", 800>>
    /\ wire[3] = <<"HIGH", 35>>
    /\ wire[4] = <<"LOW", 65>>
    /\ wire[20] = <<"LOW", 0>>

====
